---- MODULE Spec2Model ----
(***************************************************************************)
(* Model of BSEToDb.run_task (src/pyGWBSE/parse_outputs.py).               *)
(*                                                                         *)
(* One run of the firetask is a straight-line sequence of statements, each *)
(* of which either completes or raises.  Nothing in run_task catches an    *)
(* exception, so a raise ends the run.  Every statement that can raise is  *)
(* one step of the model; the external collaborators (VaspDrone,           *)
(* get_vasprun_outcar, jsanitize, json.dumps, open, VaspCalcDb) return or  *)
(* raise as the environment chooses.                                       *)
(***************************************************************************)
EXTENDS Naturals, Sequences, FiniteSets, TLC

VARIABLES
    self,           \* the task's parameters (FiretaskBase is a dict)
    cwd,            \* os.getcwd() of the process
    fw_spec,        \* the shared orchestration state handed to run_task
    pc,             \* the statement run_task executes next
    calc_dir,       \* local: line 73
    d,              \* local: the record, lines 94-127
    bse_dir,        \* local: line 97
    structure,      \* local: line 99
    db_file,        \* local: line 103
    optical_transition, \* local: line 114
    dielectric,     \* local: line 120
    fsid,           \* local: lines 115 and 121
    db,             \* local: line 111
    BSE_json,       \* the file BSE.json in bse_dir
    gridfs,         \* the blobs this run stored, in order
    documents,      \* the documents this run inserted, in order
    calls,          \* the calls made to the collaborators, in order
    ret,            \* what run_task returned
    error,          \* the exception that ended the run
    raised_by,      \* who raised it: a collaborator, or run_task itself
    failed_at,      \* the statement that raised
    hist            \* per executed statement: "ok" or "raise"

vars == <<self, cwd, fw_spec, pc, calc_dir, d, bse_dir, structure, db_file,
          optical_transition, dielectric, fsid, db, BSE_json, gridfs,
          documents, calls, ret, error, raised_by, failed_at, hist>>

---------------------------------------------------------------------------
(* Bounds and the small sets the inputs are drawn from.                    *)

MaxCalcLocs == 2

Paths == {"/gw", "/bse"}
CalcNames == {"gw", "bse"}
CalcLocDocs == [name : CalcNames, path : Paths]

RECURSIVE SeqsUpTo(_, _)
SeqsUpTo(S, n) ==
    IF n = 0 THEN {<< >>}
    ELSE LET shorter == SeqsUpTo(S, n - 1)
         IN  shorter \cup {Append(q, x) : q \in {r \in shorter : Len(r) = n - 1}, x \in S}

None == "None"

---------------------------------------------------------------------------
(* Python values.                                                          *)

\* A value of the record: what it is (kind), which quantity (of), which
\* directory it was read from (src), and an identifier (id, 0 when none).
NoVal == [kind |-> "none", of |-> "", src |-> "", id |-> 0]
Obj(name, dir) == [kind |-> "obj", of |-> name, src |-> dir, id |-> 0]

EmptyDict == [k \in {} |-> NoVal]
EmptyLoc == [k \in {} |-> ""]

SetItem(dct, k, v) == [x \in (DOMAIN dct) \cup {k} |-> IF x = k THEN v ELSE dct[x]]
DelItem(dct, k) == [x \in (DOMAIN dct) \ {k} |-> dct[x]]

\* Python truthiness of an optional string.
Truthy(v) == v # None /\ v # ""

---------------------------------------------------------------------------
(* The collaborators whose result the arguments determine.                 *)

EnvRef == ">>db_file<<"

\* get_calc_loc(target_name, calc_locs): the last location of that name, or
\* the last location of all when target_name is True; raises when none.
MatchingLocs(target_name, calc_locs) ==
    IF target_name = "True" THEN DOMAIN calc_locs
    ELSE {i \in DOMAIN calc_locs : calc_locs[i].name = target_name}

get_calc_loc(target_name, calc_locs) ==
    LET m == MatchingLocs(target_name, calc_locs)
    IN  calc_locs[CHOOSE i \in m : \A j \in m : j <= i]

\* env_chk(val, fw_spec): None stays None, ">>key<<" is looked up in the
\* worker's environment (KeyError when absent), anything else is itself.
env_chk_raises(val, fw) == val = EnvRef /\ "db_file" \notin DOMAIN fw.fw_env

env_chk(val, fw) == IF val = EnvRef THEN fw.fw_env["db_file"] ELSE val

---------------------------------------------------------------------------
(* Conversions.                                                            *)

\* jsanitize: every value becomes a JSON-safe value; keys are kept.
jsanitize(dct) == [k \in DOMAIN dct |-> [dct[k] EXCEPT !.kind = "json"]]

\* json.dumps of one value: a string.
dumps(v) == [v EXCEPT !.kind = "str"]

\* json.dumps of the record: the text of a JSON object with the same keys.
dumps_record(dct) == [k \in DOMAIN dct |-> dumps(dct[k])]

\* insert_gridfs(..., compress=True) stores the compressed string under a
\* fresh identifier.
NextId(store) == Len(store) + 1
Blob(collection, data, id) ==
    [collection |-> collection, data |-> [data EXCEPT !.kind = "zlib"], id |-> id]
ObjectId(collection, id) == [kind |-> "oid", of |-> collection, src |-> "", id |-> id]

---------------------------------------------------------------------------
(* The state of one run, as a record, and its statements.                  *)

State ==
    [cwd |-> cwd, fw_spec |-> fw_spec, pc |-> pc, calc_dir |-> calc_dir, d |-> d,
     bse_dir |-> bse_dir, structure |-> structure, db_file |-> db_file,
     optical_transition |-> optical_transition, dielectric |-> dielectric,
     fsid |-> fsid, db |-> db, BSE_json |-> BSE_json, gridfs |-> gridfs,
     documents |-> documents, calls |-> calls, ret |-> ret, error |-> error,
     raised_by |-> raised_by, failed_at |-> failed_at]

InitRun(dir, fw) ==
    [cwd |-> dir, fw_spec |-> fw, pc |-> "get_calc_loc", calc_dir |-> EmptyLoc,
     d |-> EmptyDict, bse_dir |-> None, structure |-> NoVal, db_file |-> "unset",
     optical_transition |-> NoVal, dielectric |-> NoVal, fsid |-> NoVal,
     db |-> None,
     BSE_json |-> [exists |-> FALSE, written |-> FALSE, doc |-> EmptyDict],
     gridfs |-> << >>, documents |-> << >>, calls |-> << >>, ret |-> "unset",
     error |-> "", raised_by |-> "", failed_at |-> ""]

Call(s, fn, arg) == [s EXCEPT !.calls = Append(@, [fn |-> fn, arg |-> arg])]

\* An uncaught exception: run_task has no try/except, the run ends here.
Raise(s, by, exc) ==
    [s EXCEPT !.pc = "failed", !.error = exc, !.raised_by = by, !.failed_at = s.pc]

\* Variant of ReturnValue: an FWAction is returned when fields are to be
\* pushed or children defused.
ReturnValuePushes(slf) ==
    IF slf.task_fields_to_push # None \/ slf.defuse_unsuccessful # None
    THEN "FWAction" ELSE None

\* Falling off the end of run_task: it returns None.
ReturnValue(slf) == None

\* Variant of UseFileSink: "if db_file is None".
UseFileSinkIsNone(v) == v = None

\* Line 106: "if not db_file".
UseFileSink(v) == ~Truthy(v)

\* Lines 73-75.
GetCalcLocStmt(s, slf, o) ==
    IF Truthy(slf.gwcalc_dir)
    THEN LET c == Call(s, "get_calc_loc", slf.gwcalc_dir)
         IN  IF o = "raise" THEN Raise(c, "get_calc_loc", "ValueError")
             ELSE [c EXCEPT !.calc_dir = get_calc_loc(slf.gwcalc_dir, s.fw_spec.calc_locs),
                            !.pc = "assimilate"]
    ELSE [s EXCEPT !.calc_dir = EmptyLoc, !.pc = "assimilate"]

\* Variant of AssimilateStmt: a parser error is caught and the run goes on
\* with an empty record.
AssimilateStmtSwallows(s, slf, o) ==
    LET c == Call(s, "VaspDrone", None)
    IN  IF "path" \notin DOMAIN s.calc_dir THEN Raise(c, "run_task", "KeyError: path")
        ELSE LET a == Call(c, "assimilate", s.calc_dir["path"])
             IN  IF o = "raise" THEN [a EXCEPT !.d = EmptyDict, !.pc = "get_vasprun_outcar"]
                 ELSE [a EXCEPT !.d = [dir_name |-> Obj("dir_name", s.calc_dir["path"]),
                                       output |-> Obj("output", s.calc_dir["path"])],
                                !.pc = "get_vasprun_outcar"]

\* Lines 80-94.
AssimilateStmt(s, slf, o) ==
    LET c == Call(s, "VaspDrone", None)
    IN  IF "path" \notin DOMAIN s.calc_dir THEN Raise(c, "run_task", "KeyError: path")
        ELSE LET a == Call(c, "assimilate", s.calc_dir["path"])
             IN  IF o = "raise" THEN Raise(a, "assimilate", "Exception")
                 ELSE [a EXCEPT !.d = [dir_name |-> Obj("dir_name", s.calc_dir["path"]),
                                       output |-> Obj("output", s.calc_dir["path"])],
                                !.pc = "get_vasprun_outcar"]

\* Variant of GetVasprunOutcarStmt: the reader is given calc_dir["path"].
GetVasprunOutcarStmtCalcDir(s, slf, o) ==
    LET dir == s.calc_dir["path"]
        c == Call([s EXCEPT !.bse_dir = dir], "get_vasprun_outcar", dir)
    IN  IF o = "raise" THEN Raise(c, "get_vasprun_outcar", "Exception")
        ELSE [c EXCEPT !.structure = Obj("final_structure", dir),
                       !.d = SetItem(SetItem(s.d, "optical_transition",
                                             Obj("optical_transition", dir)),
                                     "dielectric", Obj("dielectric", dir)),
                       !.pc = "env_chk"]

\* Lines 97-101.
GetVasprunOutcarStmt(s, slf, o) ==
    LET dir == s.cwd
        c == Call([s EXCEPT !.bse_dir = dir], "get_vasprun_outcar", dir)
    IN  IF o = "raise" THEN Raise(c, "get_vasprun_outcar", "Exception")
        ELSE [c EXCEPT !.structure = Obj("final_structure", dir),
                       !.d = SetItem(SetItem(s.d, "optical_transition",
                                             Obj("optical_transition", dir)),
                                     "dielectric", Obj("dielectric", dir)),
                       !.pc = "env_chk"]

\* Line 103.
EnvChkStmt(s, slf, o) ==
    LET c == Call(s, "env_chk", slf.db_file)
    IN  IF o = "raise" THEN Raise(c, "env_chk", "KeyError")
        ELSE [c EXCEPT !.db_file = env_chk(slf.db_file, s.fw_spec), !.pc = "jsanitize"]

\* Lines 104-106.
JsanitizeStmt(s, slf, o) ==
    LET c == Call(s, "jsanitize", None)
    IN  IF o = "raise" THEN Raise(c, "jsanitize", "Exception")
        ELSE [c EXCEPT !.d = jsanitize(s.d),
                       !.pc = IF UseFileSink(s.db_file) THEN "open" ELSE "from_db_file"]

\* Variant of OpenStmt: both arrays are deleted before the file is opened.
OpenStmtDropsBoth(s, slf, o) ==
    IF "optical_transition" \notin DOMAIN s.d
    THEN Raise(s, "run_task", "KeyError: optical_transition")
    ELSE LET c == Call([s EXCEPT !.d = DelItem(DelItem(s.d, "optical_transition"),
                                               "dielectric")],
                       "open", s.bse_dir)
         IN  IF o = "raise" THEN Raise(c, "open", "OSError")
             ELSE [c EXCEPT !.BSE_json = [exists |-> TRUE, written |-> FALSE,
                                          doc |-> EmptyDict],
                            !.pc = "write"]

\* Lines 107-108.
OpenStmt(s, slf, o) ==
    IF "optical_transition" \notin DOMAIN s.d
    THEN Raise(s, "run_task", "KeyError: optical_transition")
    ELSE LET c == Call([s EXCEPT !.d = DelItem(s.d, "optical_transition")],
                       "open", s.bse_dir)
         IN  IF o = "raise" THEN Raise(c, "open", "OSError")
             ELSE [c EXCEPT !.BSE_json = [exists |-> TRUE, written |-> FALSE,
                                          doc |-> EmptyDict],
                            !.pc = "write"]

\* Line 109, and the return.
WriteStmt(s, slf, o) ==
    LET c == Call(s, "dumps", "d")
    IN  IF o = "raise" THEN Raise(c, "dumps", "TypeError")
        ELSE [c EXCEPT !.BSE_json = [exists |-> TRUE, written |-> TRUE,
                                     doc |-> dumps_record(s.d)],
                       !.ret = ReturnValue(slf),
                       !.pc = "done"]

\* Line 111.
FromDbFileStmt(s, slf, o) ==
    LET c == Call(s, "from_db_file", s.db_file)
    IN  IF o = "raise" THEN Raise(c, "from_db_file", "Exception")
        ELSE [c EXCEPT !.db = s.db_file, !.pc = "dumps_optical_transition"]

\* Line 114.
DumpsOpticalTransitionStmt(s, slf, o) ==
    IF "optical_transition" \notin DOMAIN s.d
    THEN Raise(s, "run_task", "KeyError: optical_transition")
    ELSE LET c == Call(s, "dumps", "optical_transition")
         IN  IF o = "raise" THEN Raise(c, "dumps", "TypeError")
             ELSE [c EXCEPT !.optical_transition = dumps(s.d["optical_transition"]),
                            !.pc = "insert_optical_transition"]

\* Lines 115-118.
InsertOpticalTransitionStmt(s, slf, o) ==
    LET c == Call(s, "insert_gridfs", "optical_transition_fs")
        id == ObjectId("optical_transition_fs", NextId(s.gridfs))
    IN  IF o = "raise" THEN Raise(c, "insert_gridfs", "Exception")
        ELSE [c EXCEPT !.gridfs = Append(@, Blob("optical_transition_fs",
                                                 s.optical_transition, id.id)),
                       !.fsid = id,
                       !.d = SetItem(s.d, "optical_transtiion_fs_id", id),
                       !.pc = "dumps_dielectric"]

\* Line 120.
DumpsDielectricStmt(s, slf, o) ==
    IF "dielectric" \notin DOMAIN s.d
    THEN Raise(s, "run_task", "KeyError: dielectric")
    ELSE LET c == Call(s, "dumps", "dielectric")
         IN  IF o = "raise" THEN Raise(c, "dumps", "TypeError")
             ELSE [c EXCEPT !.dielectric = dumps(s.d["dielectric"]),
                            !.pc = "insert_dielectric"]

\* Variant of InsertDielectricStmt: a failed insert removes the blob stored
\* before it.
InsertDielectricStmtCleansUp(s, slf, o) ==
    LET c == Call(s, "insert_gridfs", "dielectric_fs")
        id == ObjectId("dielectric_fs", NextId(s.gridfs))
    IN  IF o = "raise"
        THEN Raise([c EXCEPT !.gridfs = << >>], "insert_gridfs", "Exception")
        ELSE [c EXCEPT !.gridfs = Append(@, Blob("dielectric_fs", s.dielectric, id.id)),
                       !.fsid = id,
                       !.pc = "insert_one"]

\* Lines 121-123.
InsertDielectricStmt(s, slf, o) ==
    LET c == Call(s, "insert_gridfs", "dielectric_fs")
        id == ObjectId("dielectric_fs", NextId(s.gridfs))
    IN  IF o = "raise" THEN Raise(c, "insert_gridfs", "Exception")
        ELSE [c EXCEPT !.gridfs = Append(@, Blob("dielectric_fs", s.dielectric, id.id)),
                       !.fsid = id,
                       !.pc = "insert_one"]

\* Variant of InsertOneStmt: both identifier keys are assigned from fsid
\* after the second insert.
InsertOneStmtReusesFsid(s, slf, o) ==
    LET d1 == SetItem(SetItem(s.d, "optical_transtiion_fs_id", s.fsid),
                      "dielectric_fs_id", s.fsid)
    IN  IF "dielectric" \notin DOMAIN d1 \/ "optical_transition" \notin DOMAIN d1
        THEN Raise([s EXCEPT !.d = d1], "run_task", "KeyError")
        ELSE LET d3 == DelItem(DelItem(d1, "dielectric"), "optical_transition")
                 c == Call([s EXCEPT !.d = d3], "insert_one", "BSE_results")
             IN  IF o = "raise" THEN Raise(c, "insert_one", "Exception")
                 ELSE [c EXCEPT !.documents = Append(@, [collection |-> "BSE_results",
                                                         doc |-> d3]),
                                !.ret = ReturnValue(slf),
                                !.pc = "done"]

\* Lines 125-130, and the return.
InsertOneStmt(s, slf, o) ==
    LET d1 == SetItem(s.d, "dielectric_fs_id", s.fsid)
    IN  IF "dielectric" \notin DOMAIN d1 \/ "optical_transition" \notin DOMAIN d1
        THEN Raise([s EXCEPT !.d = d1], "run_task", "KeyError")
        ELSE LET d3 == DelItem(DelItem(d1, "dielectric"), "optical_transition")
                 c == Call([s EXCEPT !.d = d3], "insert_one", "BSE_results")
             IN  IF o = "raise" THEN Raise(c, "insert_one", "Exception")
                 ELSE [c EXCEPT !.documents = Append(@, [collection |-> "BSE_results",
                                                         doc |-> d3]),
                                !.ret = ReturnValue(slf),
                                !.pc = "done"]

\* The statement at s.pc.
Step(s, slf, o) ==
    CASE s.pc = "get_calc_loc" -> GetCalcLocStmt(s, slf, o)
      [] s.pc = "assimilate" -> AssimilateStmt(s, slf, o)
      [] s.pc = "get_vasprun_outcar" -> GetVasprunOutcarStmt(s, slf, o)
      [] s.pc = "env_chk" -> EnvChkStmt(s, slf, o)
      [] s.pc = "jsanitize" -> JsanitizeStmt(s, slf, o)
      [] s.pc = "open" -> OpenStmt(s, slf, o)
      [] s.pc = "write" -> WriteStmt(s, slf, o)
      [] s.pc = "from_db_file" -> FromDbFileStmt(s, slf, o)
      [] s.pc = "dumps_optical_transition" -> DumpsOpticalTransitionStmt(s, slf, o)
      [] s.pc = "insert_optical_transition" -> InsertOpticalTransitionStmt(s, slf, o)
      [] s.pc = "dumps_dielectric" -> DumpsDielectricStmt(s, slf, o)
      [] s.pc = "insert_dielectric" -> InsertDielectricStmt(s, slf, o)
      [] s.pc = "insert_one" -> InsertOneStmt(s, slf, o)
      [] OTHER -> s

\* Whether the statement at s.pc completes or raises: the environment decides
\* for a collaborator that reads files or talks to the database; the
\* arguments decide for get_calc_loc, env_chk and run_task's own lookups.
Outcomes(s, slf) ==
    CASE s.pc = "get_calc_loc" ->
             IF Truthy(slf.gwcalc_dir)
                /\ MatchingLocs(slf.gwcalc_dir, s.fw_spec.calc_locs) = {}
             THEN {"raise"} ELSE {"ok"}
      [] s.pc = "assimilate" ->
             IF "path" \notin DOMAIN s.calc_dir THEN {"raise"} ELSE {"ok", "raise"}
      [] s.pc = "env_chk" ->
             IF env_chk_raises(slf.db_file, s.fw_spec) THEN {"raise"} ELSE {"ok"}
      [] s.pc \in {"done", "failed"} -> {}
      [] OTHER -> {"ok", "raise"}

---------------------------------------------------------------------------
(* The state machine.                                                      *)

Configs ==
    [gwcalc_dir : {None, "True", "gw"},
     db_file : {None, "db.json", EnvRef},
     fw_spec_field : {None, "tags"},
     defuse_unsuccessful : {None, "True"},
     task_fields_to_push : {None, "push"}]

FwEnvs == {EmptyLoc, [db_file |-> "db.json"], [db_file |-> ""]}

FwSpecs == [calc_locs : SeqsUpTo(CalcLocDocs, MaxCalcLocs), fw_env : FwEnvs]

Install(n, o) ==
    /\ cwd' = n.cwd /\ fw_spec' = n.fw_spec /\ pc' = n.pc
    /\ calc_dir' = n.calc_dir /\ d' = n.d /\ bse_dir' = n.bse_dir
    /\ structure' = n.structure /\ db_file' = n.db_file
    /\ optical_transition' = n.optical_transition /\ dielectric' = n.dielectric
    /\ fsid' = n.fsid /\ db' = n.db /\ BSE_json' = n.BSE_json
    /\ gridfs' = n.gridfs /\ documents' = n.documents /\ calls' = n.calls
    /\ ret' = n.ret /\ error' = n.error /\ raised_by' = n.raised_by
    /\ failed_at' = n.failed_at
    /\ hist' = Append(hist, o)
    /\ UNCHANGED self

Init ==
    /\ self \in Configs
    /\ hist = << >>
    /\ \E dir \in Paths, fw \in FwSpecs :
          LET n == InitRun(dir, fw)
          IN  /\ cwd = n.cwd /\ fw_spec = n.fw_spec /\ pc = n.pc
              /\ calc_dir = n.calc_dir /\ d = n.d /\ bse_dir = n.bse_dir
              /\ structure = n.structure /\ db_file = n.db_file
              /\ optical_transition = n.optical_transition
              /\ dielectric = n.dielectric
              /\ fsid = n.fsid /\ db = n.db /\ BSE_json = n.BSE_json
              /\ gridfs = n.gridfs /\ documents = n.documents /\ calls = n.calls
              /\ ret = n.ret /\ error = n.error /\ raised_by = n.raised_by
              /\ failed_at = n.failed_at

GetCalcLoc ==
    /\ pc = "get_calc_loc"
    /\ \E o \in Outcomes(State, self) : Install(GetCalcLocStmt(State, self, o), o)

Assimilate ==
    /\ pc = "assimilate"
    /\ \E o \in Outcomes(State, self) : Install(AssimilateStmt(State, self, o), o)

GetVasprunOutcar ==
    /\ pc = "get_vasprun_outcar"
    /\ \E o \in Outcomes(State, self) : Install(GetVasprunOutcarStmt(State, self, o), o)

EnvChk ==
    /\ pc = "env_chk"
    /\ \E o \in Outcomes(State, self) : Install(EnvChkStmt(State, self, o), o)

Jsanitize ==
    /\ pc = "jsanitize"
    /\ \E o \in Outcomes(State, self) : Install(JsanitizeStmt(State, self, o), o)

OpenBseJson ==
    /\ pc = "open"
    /\ \E o \in Outcomes(State, self) : Install(OpenStmt(State, self, o), o)

WriteBseJson ==
    /\ pc = "write"
    /\ \E o \in Outcomes(State, self) : Install(WriteStmt(State, self, o), o)

FromDbFile ==
    /\ pc = "from_db_file"
    /\ \E o \in Outcomes(State, self) : Install(FromDbFileStmt(State, self, o), o)

DumpsOpticalTransition ==
    /\ pc = "dumps_optical_transition"
    /\ \E o \in Outcomes(State, self) : Install(DumpsOpticalTransitionStmt(State, self, o), o)

InsertOpticalTransition ==
    /\ pc = "insert_optical_transition"
    /\ \E o \in Outcomes(State, self) : Install(InsertOpticalTransitionStmt(State, self, o), o)

DumpsDielectric ==
    /\ pc = "dumps_dielectric"
    /\ \E o \in Outcomes(State, self) : Install(DumpsDielectricStmt(State, self, o), o)

InsertDielectric ==
    /\ pc = "insert_dielectric"
    /\ \E o \in Outcomes(State, self) : Install(InsertDielectricStmt(State, self, o), o)

InsertOne ==
    /\ pc = "insert_one"
    /\ \E o \in Outcomes(State, self) : Install(InsertOneStmt(State, self, o), o)

Next ==
    \/ GetCalcLoc
    \/ Assimilate
    \/ GetVasprunOutcar
    \/ EnvChk
    \/ Jsanitize
    \/ OpenBseJson
    \/ WriteBseJson
    \/ FromDbFile
    \/ DumpsOpticalTransition
    \/ InsertOpticalTransition
    \/ DumpsDielectric
    \/ InsertDielectric
    \/ InsertOne

Spec == Init /\ [][Next]_vars

---------------------------------------------------------------------------
(* Properties.                                                             *)

Tensors == {"optical_transition", "dielectric"}
FsIdKeys == {"optical_transtiion_fs_id", "dielectric_fs_id"}
PrePersist == {"get_calc_loc", "assimilate", "get_vasprun_outcar", "env_chk", "jsanitize"}
DbCalls == {"from_db_file", "insert_gridfs", "insert_one"}

CallsOf(fn) == {i \in DOMAIN calls : calls[i].fn = fn}
CallIdx(fn, arg) == {i \in DOMAIN calls : calls[i] = [fn |-> fn, arg |-> arg]}
BlobsIn(collection) == {i \in DOMAIN gridfs : gridfs[i].collection = collection}
NothingPersisted == ~BSE_json.exists /\ gridfs = << >> /\ documents = << >>

\* C1: the record is never persisted with a raw tensor inline: the written
\* BSE.json has neither optical_transition nor dielectric, and an inserted
\* document has neither and carries the two identifier keys instead.
C1_NeverPersistedInline ==
    /\ BSE_json.written => Tensors \cap DOMAIN BSE_json.doc = {}
    /\ \A i \in DOMAIN documents :
          /\ Tensors \cap DOMAIN documents[i].doc = {}
          /\ FsIdKeys \subseteq DOMAIN documents[i].doc

\* C2: the record written to BSE.json never has the key optical_transition
\* and always has the key dielectric.
C2_FileSinkKeys ==
    BSE_json.written =>
        /\ "optical_transition" \notin DOMAIN BSE_json.doc
        /\ "dielectric" \in DOMAIN BSE_json.doc

C2_Witness == pc = "done" /\ BSE_json.written /\ ~Truthy(db_file)

\* C3: the single document inserted into BSE_results has neither tensor key,
\* has both identifier keys, and each identifier is the one the blob insert
\* into its own collection returned (optical_transtiion_fs_id from
\* optical_transition_fs, dielectric_fs_id from dielectric_fs).
C3_DocumentReferencesBlobs ==
    /\ Len(documents) <= 1
    /\ \A i \in DOMAIN documents :
          LET doc == documents[i].doc
          IN  /\ documents[i].collection = "BSE_results"
              /\ Tensors \cap DOMAIN doc = {}
              /\ FsIdKeys \subseteq DOMAIN doc
              /\ \E b \in BlobsIn("optical_transition_fs") :
                    /\ doc["optical_transtiion_fs_id"] =
                           ObjectId("optical_transition_fs", gridfs[b].id)
                    /\ gridfs[b].data.of = "optical_transition"
              /\ \E b \in BlobsIn("dielectric_fs") :
                    /\ doc["dielectric_fs_id"] = ObjectId("dielectric_fs", gridfs[b].id)
                    /\ gridfs[b].data.of = "dielectric"
              /\ doc["optical_transtiion_fs_id"] # doc["dielectric_fs_id"]

C3_Witness == pc = "done" /\ Len(documents) = 1

\* C4: the sink is chosen by the resolved db_file alone and exclusively: with
\* no usable db_file no database call is ever made and a completed run has
\* written BSE.json; with a db_file BSE.json is never opened and a completed
\* run has inserted the document; no run touches both sinks.
C4_ExclusiveSink ==
    /\ ~(BSE_json.exists /\ (\E i \in DOMAIN calls : calls[i].fn \in DbCalls))
    /\ ~(BSE_json.exists /\ (db # None \/ gridfs # << >> \/ documents # << >>))
    /\ (db_file # "unset" /\ ~Truthy(db_file)) =>
          /\ \A i \in DOMAIN calls : calls[i].fn \notin DbCalls
          /\ db = None /\ gridfs = << >> /\ documents = << >>
          /\ pc = "done" => BSE_json.written
    /\ Truthy(db_file) =>
          /\ ~BSE_json.exists
          /\ CallsOf("open") = {}
          /\ pc = "done" => Len(documents) = 1
    /\ db_file = "unset" => NothingPersisted /\ CallsOf("open") = {}

C4_Witness == pc = "done" /\ db_file = "" /\ BSE_json.written

\* C5: with neither gwcalc_dir nor db_file given, and no reader, sanitizer or
\* file operation raising, calc_dir is the empty resolution, the parser is
\* invoked, and the run ends having written BSE.json.
C5_EmptyConfigWritesJson ==
    (/\ self.gwcalc_dir = None
     /\ self.db_file = None
     /\ pc \in {"done", "failed"}
     /\ raised_by \notin {"assimilate", "get_vasprun_outcar", "jsanitize", "open", "dumps"})
    => /\ pc = "done"
       /\ calc_dir = EmptyLoc
       /\ CallsOf("assimilate") # {}
       /\ BSE_json.written

\* C6: a statement that raises ends the run with that error: it is the last
\* statement executed, nothing is returned, no call is repeated, and when it
\* lies before the persist step nothing has been written to either sink.
C6_FailureAborts ==
    /\ \A i \in DOMAIN hist :
          hist[i] = "raise" => i = Len(hist) /\ pc = "failed"
    /\ pc = "failed" =>
          /\ hist # << >> /\ hist[Len(hist)] = "raise"
          /\ error # "" /\ raised_by # "" /\ ret = "unset"
          /\ raised_by # "run_task" => calls[Len(calls)].fn = raised_by
          /\ failed_at \in PrePersist =>
                /\ NothingPersisted
                /\ \A i \in DOMAIN calls : calls[i].fn \notin DbCalls \cup {"open"}
    /\ \A i, j \in DOMAIN calls : calls[i] = calls[j] => i = j

C6_Witness == pc = "failed" /\ failed_at = "jsanitize" /\ raised_by = "jsanitize"

\* C7: on the database path the blob for optical_transition_fs is stored
\* first, the blob for dielectric_fs second, the BSE_results document last
\* and only after both; a failure after a blob insert leaves the blobs stored
\* with no document; a completed run made exactly two blob inserts and one
\* document insert.
C7_DbWriteOrder ==
    /\ Len(gridfs) <= 2 /\ Len(documents) <= 1
    /\ Len(gridfs) >= 1 => gridfs[1].collection = "optical_transition_fs"
    /\ Len(gridfs) >= 2 => gridfs[2].collection = "dielectric_fs"
    /\ documents # << >> => Len(gridfs) = 2
    /\ \A k \in CallsOf("insert_one") :
          /\ \E i \in CallIdx("insert_gridfs", "optical_transition_fs") :
                \E j \in CallIdx("insert_gridfs", "dielectric_fs") : i < j /\ j < k
    /\ (pc = "failed" /\ failed_at \in {"dumps_dielectric", "insert_dielectric"}) =>
          Len(gridfs) = 1 /\ documents = << >>
    /\ (pc = "failed" /\ failed_at = "insert_one") =>
          Len(gridfs) = 2 /\ documents = << >>
    /\ (pc = "done" /\ db # None) =>
          /\ Len(gridfs) = 2 /\ Len(documents) = 1
          /\ Cardinality(CallsOf("insert_gridfs")) = 2
          /\ Cardinality(CallsOf("insert_one")) = 1

C7_Witness ==
    pc = "failed" /\ failed_at = "insert_one" /\ Len(gridfs) = 2 /\ documents = << >>

\* C8: after augmentation and before sanitization the record holds the final
\* structure read by the secondary reader and the two arrays
\* optical_transition and dielectric.
C8_AugmentedRecord ==
    pc \in {"env_chk", "jsanitize"} =>
        /\ Tensors \subseteq DOMAIN d
        /\ structure # NoVal
        /\ \E k \in DOMAIN d : d[k] = structure

\* C9 (as claimed): the path given to the secondary reader equals the path
\* given to the primary parser.
C9_SameLocation ==
    \A i \in CallsOf("assimilate"), j \in CallsOf("get_vasprun_outcar") :
        calls[i].arg = calls[j].arg

\* C9 (amended): the secondary reader is always given the current working
\* directory and the primary parser is always given calc_dir["path"]; the two
\* agree exactly when the resolved location is the working directory.
C9_ReaderPaths ==
    /\ \A j \in CallsOf("get_vasprun_outcar") :
          /\ calls[j].arg = cwd
          /\ bse_dir = cwd
    /\ \A i \in CallsOf("assimilate") :
          /\ "path" \in DOMAIN calc_dir
          /\ calls[i].arg = calc_dir["path"]
    /\ \A k \in Tensors :
          (k \in DOMAIN d /\ d[k].kind = "obj") => d[k].src = cwd

C9_Witness ==
    /\ CallsOf("get_vasprun_outcar") # {}
    /\ "path" \in DOMAIN calc_dir
    /\ calc_dir["path"] # cwd
    /\ pc = "done"

\* The runs that differ from this one only in fw_spec_field,
\* defuse_unsuccessful and task_fields_to_push.
Twins(slf) ==
    {t \in Configs : t.gwcalc_dir = slf.gwcalc_dir /\ t.db_file = slf.db_file}

\* A twin run in the same state, given the same outcome, takes the same step
\* as this run just took, and has the same outcomes open to it afterwards.
\* All runs start in InitRun, which does not read the parameters, so twin
\* runs under the same outcomes pass through the same states.
TwinsStepAlike ==
    \A t \in Twins(self) :
        /\ Step(State, t, hist'[Len(hist')]) = State'
        /\ Outcomes(State, t) = Outcomes(State, self)

\* C10: run_task never writes fw_spec and returns None, and a run that
\* differs only in fw_spec_field, defuse_unsuccessful and
\* task_fields_to_push makes the same calls and the same writes with the
\* same record.
C10_NoOrchestrationEffect ==
    [][/\ fw_spec' = fw_spec
       /\ ret' \in {"unset", None}
       /\ pc' = "done" => ret' = None
       /\ TwinsStepAlike]_vars

C10_Witness ==
    /\ pc = "done"
    /\ self.fw_spec_field # None
    /\ self.defuse_unsuccessful # None
    /\ self.task_fields_to_push # None

====
